---------------------------- MODULE Spec2Model ----------------------------
(***************************************************************************)
(* A model of nmap2csv.py: the record extractor parse_nmap_lines (with the *)
(* regular expression PORT_LINE_RE it is built on) and the output-path     *)
(* flow of main / resolve_output_path.                                     *)
(*                                                                         *)
(* A Python str is a sequence of one-character strings; a Path is the      *)
(* sequence of its parts.                                                  *)
(***************************************************************************)
EXTENDS Integers, Sequences, FiniteSets, TLC

VARIABLES
    lines,      \* parse_nmap_lines: the argument `lines` (a sequence of str)
    only_open,  \* parse_nmap_lines: the argument `only_open`
    idx,        \* number of elements the for loop has taken from `lines`
    rows,       \* parse_nmap_lines: the local list `rows`
    pc,         \* "for" while the loop runs, "returned" after `return rows`,
                \* "idle" while parse_nmap_lines is not running
    args,       \* main: the argparse namespace (and no_cli_args, line 192)
    files,      \* the file system: the paths that are regular files
    dirs,       \* the file system: the paths that are directories
    mpc,        \* main: where main / resolve_output_path stands
    out_path,   \* resolve_output_path: its parameter in the innermost call
    depth,      \* resolve_output_path: number of recursive calls (line 162)
    result,     \* what resolve_output_path returned (a Path or None)
    ret,        \* main: its return value, -1 while it has not returned
    written,    \* the writes of lines 218-221: records [path, rows]
    absent,     \* history: the paths line 148 found not to exist
    answered    \* history: the <<path, choice>> pairs line 151 returned

pvars == <<lines, only_open, idx, rows, pc>>
mvars == <<args, files, dirs, mpc, out_path, depth, result, ret, written,
           absent, answered>>
vars == <<lines, only_open, idx, rows, pc, args, files, dirs, mpc, out_path,
          depth, result, ret, written, absent, answered>>

(***************************************************************************)
(* Characters and str methods                                              *)
(***************************************************************************)

\* The largest element of a non-empty set of integers.
Max(S) == CHOOSE x \in S : \A y \in S : y <= x

\* str.isspace() / the regex class \s, on the characters of the model.
IsSpace(c) == c \in {" ", "\t", "\n", "\r", "\f"}

\* The regex class \d.
IsDigit(c) == c \in {"0", "1", "2", "3", "4", "5", "6", "7", "8", "9"}

UpperLetters ==
    <<"A","B","C","D","E","F","G","H","I","J","K","L","M",
      "N","O","P","Q","R","S","T","U","V","W","X","Y","Z">>

LowerLetters ==
    <<"a","b","c","d","e","f","g","h","i","j","k","l","m",
      "n","o","p","q","r","s","t","u","v","w","x","y","z">>

\* str.lower() on one character.
LowerChar(c) ==
    IF \E k \in 1..26 : UpperLetters[k] = c
    THEN LowerLetters[CHOOSE k \in 1..26 : UpperLetters[k] = c]
    ELSE c

\* str.lower()
Lower(s) == [k \in 1..Len(s) |-> LowerChar(s[k])]

\* str.startswith(prefix)
StartsWith(s, prefix) ==
    /\ Len(s) >= Len(prefix)
    /\ SubSeq(s, 1, Len(prefix)) = prefix

\* str.strip(): leading and trailing whitespace removed.
Strip(s) ==
    LET ks == {k \in 1..Len(s) : ~IsSpace(s[k])}
    IN IF ks = {} THEN <<>>
       ELSE SubSeq(s, CHOOSE k \in ks : \A j \in ks : k <= j, Max(ks))

\* A plausible slip: raw.strip() in place of raw.rstrip("\n").
RStripNewlines_StripAll(raw) == Strip(raw)

\* raw.rstrip("\n"): every trailing "\n" removed, nothing else.
RStripNewlines(raw) ==
    LET keep == {k \in 0..Len(raw) : \A j \in (k+1)..Len(raw) : raw[j] = "\n"}
        n == CHOOSE k \in keep : \A j \in keep : k <= j
    IN SubSeq(raw, 1, n)

(***************************************************************************)
(* PORT_LINE_RE.match(line)                                                *)
(*                                                                         *)
(* Positions are indices into the line; an "end" is the index of the first *)
(* character after the group.  Each set below holds the choices of one     *)
(* quantifier for which the rest of the pattern can still match; the       *)
(* backtracking matcher takes the greedy (largest) one.                    *)
(***************************************************************************)

NoMatch == [matched |-> FALSE]

\* Every character of line[a..b-1] is whitespace (a run of \s).
WsRun(line, a, b) == \A k \in a..(b-1) : IsSpace(line[k])

\* Every character of line[a..b-1] is non-whitespace (a run of \S).
NonWsRun(line, a, b) == \A k \in a..(b-1) : ~IsSpace(line[k])

\* Every character of line[a..b-1] is a digit (a run of \d).
DigitRun(line, a, b) == \A k \in a..(b-1) : IsDigit(line[k])

\* `\s*$` from position i: `$` is the end of the string, or the place just
\* before a newline that ends the string.
EndOK(line, i) ==
    \E j \in i..(Len(line)+1) :
        /\ WsRun(line, i, j)
        /\ \/ j = Len(line) + 1
           \/ j = Len(line) /\ line[j] = "\n"

\* A plausible slip: `.*` in place of `.*\S`, so that the version keeps its
\* trailing whitespace.
VersionSpans_Untrimmed(line, i) ==
    {je \in ((i+1)..Len(line)) \X ((i+1)..Len(line)) :
        /\ je[1] <= je[2]
        /\ WsRun(line, i, je[1])
        /\ ~IsSpace(line[je[1]])
        /\ \A k \in je[1]..je[2] : line[k] # "\n"
        /\ EndOK(line, je[2] + 1)}

\* `\s+(?P<version>.*\S)` from position i, then `\s*$`: the pairs <<j, e>>
\* with the version group being line[j..e]; `.` matches anything but "\n".
VersionSpans(line, i) ==
    {je \in ((i+1)..Len(line)) \X ((i+1)..Len(line)) :
        /\ je[1] <= je[2]
        /\ WsRun(line, i, je[1])
        /\ ~IsSpace(line[je[2]])
        /\ \A k \in je[1]..(je[2]-1) : line[k] # "\n"
        /\ EndOK(line, je[2] + 1)}

\* `(?:\s+(?P<version>.*\S))?\s*$` from position i.
TailOK(line, i) == VersionSpans(line, i) # {} \/ EndOK(line, i)

\* `(?P<service>\S+)` from position s: the ends the rest can match after.
ServiceEnds(line, s) ==
    {i \in (s+1)..(Len(line)+1) : NonWsRun(line, s, i) /\ TailOK(line, i)}

\* A plausible slip: `\s*` in place of `\s+` between state and service.
ServiceStarts_Star(line, b) ==
    {s \in b..Len(line) : WsRun(line, b, s) /\ ServiceEnds(line, s) # {}}

\* `\s+` after the state group, from position b: the starts of the service.
ServiceStarts(line, b) ==
    {s \in (b+1)..Len(line) : WsRun(line, b, s) /\ ServiceEnds(line, s) # {}}

\* `(?P<state>\S+)` from position a.
StateEnds(line, a) ==
    {b \in (a+1)..Len(line) : NonWsRun(line, a, b) /\ ServiceStarts(line, b) # {}}

\* `\s+` after the protocol group, from position q: the starts of the state.
StateStarts(line, q) ==
    {a \in (q+1)..Len(line) : WsRun(line, q, a) /\ StateEnds(line, a) # {}}

\* `(?P<proto>tcp|udp)` at position p, under re.IGNORECASE.
ProtoAt(line, p) ==
    /\ p + 2 <= Len(line)
    /\ Lower(SubSeq(line, p, p + 2)) \in {<<"t","c","p">>, <<"u","d","p">>}

\* `(?:\s*)?` after the slash, from position c: the starts of the protocol.
ProtoStarts(line, c) ==
    {p \in c..Len(line) :
        WsRun(line, c, p) /\ ProtoAt(line, p) /\ StateStarts(line, p + 3) # {}}

\* A plausible slip: `\d*` in place of `\d+`.
PortEnds_Star(line) ==
    {e \in 1..Len(line) :
        DigitRun(line, 1, e) /\ line[e] = "/" /\ ProtoStarts(line, e + 1) # {}}

\* `^(?P<port>\d+)/`: the positions of the slash.
PortEnds(line) ==
    {e \in 2..Len(line) :
        DigitRun(line, 1, e) /\ line[e] = "/" /\ ProtoStarts(line, e + 1) # {}}

\* The match object: the groups of the first match in backtracking order.
\* version is None (here: matched without the group) when the optional
\* group did not take part.
Match(line) ==
    IF PortEnds(line) = {} THEN NoMatch
    ELSE LET e  == Max(PortEnds(line))
             p  == Max(ProtoStarts(line, e + 1))
             a  == Max(StateStarts(line, p + 3))
             b  == Max(StateEnds(line, a))
             s  == Max(ServiceStarts(line, b))
             i  == Max(ServiceEnds(line, s))
             vs == VersionSpans(line, i)
             j  == Max({je[1] : je \in vs})
             ve == Max({je[2] : je \in {x \in vs : x[1] = j}})
         IN [matched     |-> TRUE,
             port        |-> SubSeq(line, 1, e - 1),
             proto       |-> SubSeq(line, p, p + 2),
             state       |-> SubSeq(line, a, b - 1),
             service     |-> SubSeq(line, s, i - 1),
             has_version |-> vs # {},
             version     |-> IF vs # {} THEN SubSeq(line, j, ve) ELSE <<>>]

(***************************************************************************)
(* Inputs                                                                  *)
(***************************************************************************)

MaxLines == 2

\* "<port>/<proto>" heads: port zero; upper-case protocol after "/ ".
Heads ==
    { <<"0","/","t","c","p">>,
      <<"8","0","/"," ","U","d","P">> }

States ==
    { <<"o","p","e","n">>,
      <<"O","P","E","N","|","f","i","l","t","e","r","e","d">>,
      <<"c","l","o","s","e","d">> }

\* What follows the state: nothing, whitespace only, a service, a service
\* and a version with internal and trailing whitespace and a newline.
Tails ==
    { <<>>,
      <<" ">>,
      <<" ","h","t","t","p">>,
      <<"\t","S","s","h"," "," ","a"," ","b"," ","\n">> }

PortRows == {h \o <<" ">> \o s \o t : h \in Heads, s \in States, t \in Tails}

OtherLines ==
    { <<>>,
      <<"\n">>,
      <<" ","8","0","/","t","c","p"," ","o","p","e","n"," ","x">>,
      <<"P","O","R","T"," ","S","T","A","T","E">>,
      <<"/","t","c","p"," ","o","p","e","n"," ","x">>,
      <<"8","0","/","t","c","p","x"," ","o","p","e","n"," ","x">>,
      <<"5","3","/","u","d","p"," ","o","p","e","n","|","f","i","l","t","e","r","e","d"," ","d","n","s">>,
      <<"5","3","/","u","d","p"," ","f","i","l","t","e","r","e","d"," ","d","n","s">>,
      <<"5","3","/","u","d","p"," ","c","l","o","s","e","d","|","f","i","l","t","e","r","e","d"," ","d","n","s">>,
      <<"8","0","/","t","c","p"," ","o","p","e","n","e","d"," ","x","\r">>,
      <<"8","0","/","u","d","p","o","p","e","n"," ","x">>,
      <<"2","2","/","t","c","p"," ","o","p","e","n","\n","s","s","h">>,
      <<"2","2","/","t","c","p"," ","o","p","e","n"," ","s","s","h"," ","a","\n","b">> }

Pool == PortRows \cup OtherLines

\* PORT_LINE_RE is compiled once (line 34); the match of every line of the
\* pool is likewise computed once and looked up by the loop.
MatchTable == [l \in {RStripNewlines(raw) : raw \in Pool} |-> Match(l)]

\* PORT_LINE_RE.match(line), by lookup.
re_match(line) == MatchTable[line]

Inputs == UNION {[1..n -> Pool] : n \in 0..MaxLines}

(***************************************************************************)
(* parse_nmap_lines                                                        *)
(***************************************************************************)

\* line 62: `not line or line[:1].isspace()`
IsBlankOrIndented(line) == IF line = <<>> THEN TRUE ELSE IsSpace(line[1])

\* A plausible slip: the .lower() of line 70 left out.
ProtoOf_NoLower(m) == m.proto

\* line 70: m.group("proto").lower()
ProtoOf(m) == Lower(m.proto)

\* line 73: m.group("version") or ""
VersionOf(m) == IF m.has_version THEN m.version ELSE <<>>

\* A plausible slip: == "open" in place of .startswith("open").
StateIsOpen_Exact(state) == Lower(state) = <<"o","p","e","n">>

\* line 75: state.lower().startswith("open")
StateIsOpen(state) == StartsWith(Lower(state), <<"o","p","e","n">>)

\* A plausible slip: the flag inverted.
Filtered_Inverted(oo, state) == ~oo /\ ~StateIsOpen(state)

\* line 75: the filter `only_open and not state.lower().startswith("open")`
Filtered(oo, state) == oo /\ ~StateIsOpen(state)

\* A plausible slip: the version stored under "Notes" as well.
MakeRow_NotesFilled(m) ==
    [Enum       |-> <<"N">>,
     Port       |-> m.port,
     Protocol   |-> ProtoOf(m),
     State      |-> m.state,
     Service    |-> m.service,
     Version    |-> VersionOf(m),
     Hypothesis |-> <<>>,
     Notes      |-> VersionOf(m),
     Loot       |-> <<>>]

\* lines 79-89: the dict appended for a match.
MakeRow(m) ==
    [Enum       |-> <<"N">>,
     Port       |-> m.port,
     Protocol   |-> ProtoOf(m),
     State      |-> m.state,
     Service    |-> m.service,
     Version    |-> VersionOf(m),
     Hypothesis |-> <<>>,
     Notes      |-> <<>>,
     Loot       |-> <<>>]

\* A plausible slip: rows.insert(0, ...) in place of rows.append(...).
RowsAppend_Front(rs, row) == <<row>> \o rs

\* line 78: rows.append(...)
RowsAppend(rs, row) == Append(rs, row)

\* One pass of the loop body (lines 59-90) on `raw`: the new value of rows.
LoopBody(rs, raw, oo) ==
    LET line == RStripNewlines(raw)
        m    == re_match(line)
    IN IF IsBlankOrIndented(line) THEN rs
       ELSE IF ~m.matched THEN rs
       ELSE IF Filtered(oo, m.state) THEN rs
       ELSE RowsAppend(rs, MakeRow(m))

\* parse_nmap_lines(ls, oo) as a function of its arguments: the loop run
\* over ls[1..n], starting from the empty list.
RECURSIVE ParseUpTo(_, _, _)
ParseUpTo(ls, n, oo) ==
    IF n = 0 THEN <<>> ELSE LoopBody(ParseUpTo(ls, n - 1, oo), ls[n], oo)

parse_nmap_lines(ls, oo) == ParseUpTo(ls, Len(ls), oo)

(***************************************************************************)
(* parse_nmap_lines as a state machine: one action per way through the     *)
(* loop body.                                                              *)
(***************************************************************************)

\* The element the for loop takes next, and `line` as line 59 sets it.
NextRaw == lines[idx + 1]
NextLine == RStripNewlines(NextRaw)

\* lines 62-63: an empty or indented line.
SkipBlankOrIndented ==
    /\ pc = "for" /\ idx < Len(lines)
    /\ IsBlankOrIndented(NextLine)
    /\ idx' = idx + 1
    /\ rows' = LoopBody(rows, NextRaw, only_open)
    /\ UNCHANGED <<lines, only_open, pc>>
    /\ UNCHANGED mvars

\* lines 65-67: the pattern does not match.
SkipNoMatch ==
    /\ pc = "for" /\ idx < Len(lines)
    /\ ~IsBlankOrIndented(NextLine)
    /\ ~re_match(NextLine).matched
    /\ idx' = idx + 1
    /\ rows' = LoopBody(rows, NextRaw, only_open)
    /\ UNCHANGED <<lines, only_open, pc>>
    /\ UNCHANGED mvars

\* lines 75-76: a match the state filter drops.
SkipNotOpen ==
    /\ pc = "for" /\ idx < Len(lines)
    /\ ~IsBlankOrIndented(NextLine)
    /\ re_match(NextLine).matched
    /\ Filtered(only_open, re_match(NextLine).state)
    /\ idx' = idx + 1
    /\ rows' = LoopBody(rows, NextRaw, only_open)
    /\ UNCHANGED <<lines, only_open, pc>>
    /\ UNCHANGED mvars

\* lines 69-90: a match that is kept.
AppendRow ==
    /\ pc = "for" /\ idx < Len(lines)
    /\ ~IsBlankOrIndented(NextLine)
    /\ re_match(NextLine).matched
    /\ ~Filtered(only_open, re_match(NextLine).state)
    /\ idx' = idx + 1
    /\ rows' = LoopBody(rows, NextRaw, only_open)
    /\ UNCHANGED <<lines, only_open, pc>>
    /\ UNCHANGED mvars

\* line 92: the iterable is exhausted, return rows.
ReturnRows ==
    /\ pc = "for" /\ idx = Len(lines)
    /\ pc' = "returned"
    /\ UNCHANGED <<lines, only_open, idx, rows>>
    /\ UNCHANGED mvars

(***************************************************************************)
(* Paths and the file system                                               *)
(***************************************************************************)

\* s.split("/")
RECURSIVE SplitSlash(_)
SplitSlash(s) ==
    IF \A k \in 1..Len(s) : s[k] # "/" THEN <<s>>
    ELSE LET k == CHOOSE i \in 1..Len(s) :
                      s[i] = "/" /\ \A j \in 1..(i-1) : s[j] # "/"
         IN <<SubSeq(s, 1, k - 1)>> \o SplitSlash(SubSeq(s, k + 1, Len(s)))

IsRealPart(x) == x # <<>> /\ x # <<".">>

\* Path(name).parts of a relative name: empty and "." components collapse,
\* ".." components stay.
PathParts(name) == SelectSeq(SplitSlash(name), IsRealPart)

\* Path(name).is_absolute()
IsAbsolute(name) == name # <<>> /\ name[1] = "/"

DotCsv == <<".","c","s","v">>

\* name.lower().endswith(".csv")
EndsWithCsv(name) ==
    /\ Len(name) >= 4
    /\ SubSeq(Lower(name), Len(name) - 3, Len(name)) = DotCsv

\* line 32
ENUM_DIR == << <<"e","n","u","m">> >>

\* line 30
DEFAULT_IN ==
    ENUM_DIR \o << <<"n","m","a","p","_","s","v","_","s","c",".","n","m","a","p">> >>

\* line 31
DEFAULT_OUT ==
    ENUM_DIR \o << <<"s","u","r","f","a","c","e","_","m","a","p",".","c","s","v">> >>

\* Path.parent
Parent(path) == SubSeq(path, 1, Len(path) - 1)

\* in_path.with_suffix(in_path.suffix + ".csv")
WithCsvSuffix(path) ==
    Parent(path) \o << path[Len(path)] \o DotCsv >>

\* Path.exists()
Exists(fs, ds, path) == path = <<>> \/ path \in fs \/ path \in ds

\* The directories d.mkdir(parents=True, exist_ok=True) needs to exist.
MkdirNeeds(d) == {SubSeq(d, 1, k) : k \in 1..Len(d)}

\* d.mkdir(parents=True, exist_ok=True) raises when d or one of its parents
\* is a regular file.
MkdirRaises(fs, d) == MkdirNeeds(d) \cap fs # {}

\* _prompt_overwrite_choice, line 115: input(...).strip().lower()
ChoiceOf(typed) == Lower(Strip(typed))

\* _prompt_overwrite_choice, line 116: choice in {"y", "n", "o"}
ValidChoice(choice) == choice \in {<<"y">>, <<"n">>, <<"o">>}

\* _prompt_alt_filename, lines 126-133: the name is accepted.
ValidAltName(name) ==
    /\ name # <<>>
    /\ ~IsAbsolute(name)
    /\ \A k \in 1..Len(PathParts(name)) : PathParts(name)[k] # <<".", ".">>
    /\ Len(PathParts(name)) = 1

\* _prompt_alt_filename, lines 135-139: enum_dir / name, ".csv" added to a
\* name that does not end in it.
AltPath(enum_dir, name) ==
    enum_dir \o PathParts(IF EndsWithCsv(name) THEN name ELSE name \o DotCsv)

None == [some |-> FALSE, path |-> <<>>]
Some(path) == [some |-> TRUE, path |-> path]

\* A plausible slip: only "o" told apart, so that "n" returns the path too.
ReturnFor_AlwaysPath(choice, path) == Some(path)

\* resolve_output_path, lines 152-155: what the call returns on "y" / "n".
ReturnFor(choice, path) == IF choice = <<"y">> THEN Some(path) ELSE None

(***************************************************************************)
(* Inputs of main                                                          *)
(***************************************************************************)

MaxDepth == 2

ScanNmap == << <<"s",".","n","m","a","p">> >>
EnumB == ENUM_DIR \o << <<"b">> >>
EnumBCsv == ENUM_DIR \o << <<"b",".","c","s","v">> >>

NoOutput == [given |-> FALSE, path |-> <<>>]

\* The command lines: none; an input file; an input file and -o (a file
\* under ./enum, the directory ./enum itself); each with and without
\* --include-non-open.
ArgSets ==
    {[input_file |-> c[1], output |-> c[2], no_cli_args |-> c[3],
      include_non_open |-> inc] :
        c \in { <<DEFAULT_IN, NoOutput, TRUE>>,
                <<ScanNmap, NoOutput, FALSE>>,
                <<ScanNmap, [given |-> TRUE, path |-> EnumBCsv], FALSE>>,
                <<ScanNmap, [given |-> TRUE, path |-> ENUM_DIR], FALSE>> },
        inc \in BOOLEAN}

\* Files that may exist before the run.
InitialFiles ==
    {DEFAULT_IN, ScanNmap, DEFAULT_OUT, WithCsvSuffix(ScanNmap), EnumBCsv, EnumB}

\* What the user may type at "Overwrite? (y/n/o): ".
ChoiceInputs ==
    { <<"y">>, <<" ","Y">>, <<"n">>, <<"N"," ">>, <<"o">>, <<"O">>,
      <<"x">>, <<>>, <<"y","e","s">> }

\* What the user may type at "Enter alternative filename".
AltInputs ==
    { <<>>, <<" ">>, <<"b">>, <<" ","b",".","c","s","v"," ">>,
      <<"b",".","C","S","V">>, <<".","/","b">>, <<"b","/">>,
      <<".",".","/","b">>, <<"d","/","b">>, <<"/","b">>, <<".",".">>, <<".">> }

\* What in_path.read_text(...).splitlines() may give.
FileTexts ==
    { <<>>,
      << <<"8","0","/"," ","U","d","P"," ","o","p","e","n"," ","h","t","t","p">>,
         <<" ","8","0","/","t","c","p"," ","o","p","e","n"," ","x">>,
         <<"0","/","t","c","p"," ","c","l","o","s","e","d"," ","h","t","t","p">>,
         <<"P","O","R","T"," ","S","T","A","T","E">> >> }

(***************************************************************************)
(* main and resolve_output_path                                            *)
(***************************************************************************)

\* lines 196-199
CandidateOut(a) ==
    IF a.output.given THEN a.output.path
    ELSE IF a.no_cli_args THEN DEFAULT_OUT
    ELSE WithCsvSuffix(a.input_file)

\* lines 201-202: the input file is missing, FileNotFoundError.
InputMissing ==
    /\ mpc = "start"
    /\ args.input_file \notin files
    /\ mpc' = "raised"
    /\ UNCHANGED <<args, files, dirs, out_path, depth, result, ret, written,
                   absent, answered>>
    /\ UNCHANGED pvars

\* lines 201-207: the input file is there; the candidate's directory is
\* made and resolve_output_path(candidate_out) is called.
CallResolve ==
    /\ mpc = "start"
    /\ args.input_file \in files
    /\ LET d == Parent(CandidateOut(args))
       IN IF MkdirRaises(files, d)
          THEN mpc' = "raised" /\ UNCHANGED <<dirs, out_path>>
          ELSE /\ dirs' = dirs \cup MkdirNeeds(d)
               /\ out_path' = CandidateOut(args)
               /\ mpc' = "resolve"
    /\ UNCHANGED <<args, files, depth, result, ret, written, absent, answered>>
    /\ UNCHANGED pvars

\* lines 148-149: the path does not exist, it is returned.
ResolveFree ==
    /\ mpc = "resolve"
    /\ ~Exists(files, dirs, out_path)
    /\ result' = Some(out_path)
    /\ absent' = absent \cup {out_path}
    /\ depth' = 0
    /\ mpc' = "resolved"
    /\ UNCHANGED <<args, files, dirs, out_path, ret, written, answered>>
    /\ UNCHANGED pvars

\* lines 148-151: the path exists, the user is asked.
ResolveAsk ==
    /\ mpc = "resolve"
    /\ Exists(files, dirs, out_path)
    /\ mpc' = "prompt"
    /\ UNCHANGED <<args, files, dirs, out_path, depth, result, ret, written,
                   absent, answered>>
    /\ UNCHANGED pvars

\* lines 115-118: an answer that is none of y, n, o; the prompt repeats.
InvalidChoice ==
    /\ mpc = "prompt"
    /\ \E typed \in ChoiceInputs : ~ValidChoice(ChoiceOf(typed))
    /\ UNCHANGED mvars
    /\ UNCHANGED pvars

\* lines 152-155: "y" or "n"; every pending call returns the same value.
AnswerYesNo ==
    /\ mpc = "prompt"
    /\ \E typed \in ChoiceInputs :
        /\ ChoiceOf(typed) \in {<<"y">>, <<"n">>}
        /\ result' = ReturnFor(ChoiceOf(typed), out_path)
        /\ answered' = answered \cup {<<out_path, ChoiceOf(typed)>>}
    /\ depth' = 0
    /\ mpc' = "resolved"
    /\ UNCHANGED <<args, files, dirs, out_path, ret, written, absent>>
    /\ UNCHANGED pvars

\* lines 157-159: "o"; ./enum is made and the alternative name is asked.
AnswerOther ==
    /\ mpc = "prompt"
    /\ depth < MaxDepth
    /\ \E typed \in ChoiceInputs : ChoiceOf(typed) = <<"o">>
    /\ answered' = answered \cup {<<out_path, <<"o">> >>}
    /\ IF MkdirRaises(files, ENUM_DIR)
       THEN mpc' = "raised" /\ UNCHANGED dirs
       ELSE mpc' = "alt" /\ dirs' = dirs \cup MkdirNeeds(ENUM_DIR)
    /\ UNCHANGED <<args, files, out_path, depth, result, ret, written, absent>>
    /\ UNCHANGED pvars

\* lines 123-133: a name that is refused; the prompt repeats.
InvalidAltName ==
    /\ mpc = "alt"
    /\ \E typed \in AltInputs : ~ValidAltName(Strip(typed))
    /\ UNCHANGED mvars
    /\ UNCHANGED pvars

\* lines 135-139 and 162: a name that is accepted; resolve_output_path is
\* called on the alternative path.
Recurse ==
    /\ mpc = "alt"
    /\ \E typed \in AltInputs :
        /\ ValidAltName(Strip(typed))
        /\ out_path' = AltPath(ENUM_DIR, Strip(typed))
    /\ depth' = depth + 1
    /\ mpc' = "resolve"
    /\ UNCHANGED <<args, files, dirs, result, ret, written, absent, answered>>
    /\ UNCHANGED pvars

\* lines 208-210: resolve_output_path returned None.
Cancelled ==
    /\ mpc = "resolved"
    /\ ~result.some
    /\ ret' = 1
    /\ mpc' = "done"
    /\ UNCHANGED <<args, files, dirs, out_path, depth, result, written,
                   absent, answered>>
    /\ UNCHANGED pvars

\* lines 213-216: the output directory is made, the input is read and
\* parse_nmap_lines is called on its lines.
CallParse ==
    /\ mpc = "resolved"
    /\ result.some
    /\ IF MkdirRaises(files, Parent(result.path))
       THEN mpc' = "raised" /\ UNCHANGED <<dirs, pvars>>
       ELSE /\ dirs' = dirs \cup MkdirNeeds(Parent(result.path))
            /\ mpc' = "parsing"
            /\ lines' \in FileTexts
            /\ only_open' = ~args.include_non_open
            /\ idx' = 0
            /\ rows' = <<>>
            /\ pc' = "for"
    /\ UNCHANGED <<args, files, out_path, depth, result, ret, written,
                   absent, answered>>

\* lines 218-224: the CSV is written (open() raises on a directory), the
\* viewer is launched, main returns 0.
WriteCsv ==
    /\ mpc = "parsing"
    /\ pc = "returned"
    /\ IF result.path \in dirs
       THEN mpc' = "raised" /\ UNCHANGED <<files, written, ret>>
       ELSE /\ files' = files \cup {result.path}
            /\ written' = written \cup {[path |-> result.path, rows |-> rows]}
            /\ ret' = 0
            /\ mpc' = "done"
    /\ pc' = "idle"
    /\ UNCHANGED <<args, dirs, out_path, depth, result, absent, answered>>
    /\ UNCHANGED <<lines, only_open, idx, rows>>

(***************************************************************************)
(* Specifications                                                          *)
(***************************************************************************)

\* parse_nmap_lines called on its own.
Init ==
    /\ lines \in Inputs
    /\ only_open \in BOOLEAN
    /\ idx = 0
    /\ rows = <<>>
    /\ pc = "for"
    /\ args = [input_file |-> DEFAULT_IN, output |-> NoOutput,
               no_cli_args |-> TRUE, include_non_open |-> FALSE]
    /\ files = {}
    /\ dirs = {}
    /\ mpc = "none"
    /\ out_path = <<>>
    /\ depth = 0
    /\ result = None
    /\ ret = -1
    /\ written = {}
    /\ absent = {}
    /\ answered = {}

Next ==
    \/ SkipBlankOrIndented
    \/ SkipNoMatch
    \/ SkipNotOpen
    \/ AppendRow
    \/ ReturnRows

Spec == Init /\ [][Next]_vars

\* The script run from the command line.
MainInit ==
    /\ lines = <<>>
    /\ only_open = TRUE
    /\ idx = 0
    /\ rows = <<>>
    /\ pc = "idle"
    /\ args \in ArgSets
    /\ files \in SUBSET InitialFiles
    /\ \E extra \in SUBSET {ENUM_DIR} :
          dirs = extra \cup UNION {MkdirNeeds(Parent(f)) : f \in files}
    /\ mpc = "start"
    /\ out_path = <<>>
    /\ depth = 0
    /\ result = None
    /\ ret = -1
    /\ written = {}
    /\ absent = {}
    /\ answered = {}

MainNext ==
    \/ InputMissing
    \/ CallResolve
    \/ ResolveFree
    \/ ResolveAsk
    \/ InvalidChoice
    \/ AnswerYesNo
    \/ AnswerOther
    \/ InvalidAltName
    \/ Recurse
    \/ Cancelled
    \/ CallParse
    \/ SkipBlankOrIndented
    \/ SkipNoMatch
    \/ SkipNotOpen
    \/ AppendRow
    \/ ReturnRows
    \/ WriteCsv

MainSpec == MainInit /\ [][MainNext]_vars

(***************************************************************************)
(* A reference tokenizer                                                   *)
(*                                                                         *)
(* The port row read left to right, one token after the other, without     *)
(* the regular expression: the properties below compare the records of     *)
(* parse_nmap_lines with it.                                               *)
(***************************************************************************)

NotSpace(c) == ~IsSpace(c)

\* The first position from i on whose character does not satisfy P
\* (Len(line) + 1 when there is none).
SkipWhile(line, i, P(_)) ==
    CHOOSE j \in i..(Len(line) + 1) :
        /\ \A k \in i..(j-1) : P(line[k])
        /\ j = Len(line) + 1 \/ ~P(line[j])

\* The line without the newlines that end it.
RECURSIVE WithoutEol(_)
WithoutEol(raw) ==
    IF raw = <<>> THEN raw
    ELSE IF raw[Len(raw)] = "\n" THEN WithoutEol(SubSeq(raw, 1, Len(raw) - 1))
    ELSE raw

TcpTokens == {<<t, c, p>> : t \in {"t","T"}, c \in {"c","C"}, p \in {"p","P"}}
UdpTokens == {<<u, d, p>> : u \in {"u","U"}, d \in {"d","D"}, p \in {"p","P"}}

NoTok == [kind |-> "none"]

\* kind "row": a port row and its tokens; kind "noservice": port, protocol
\* and state but no service token; kind "none": anything else.
Tokenize(raw) ==
    LET line == WithoutEol(raw)
        n    == Len(line)
        e    == SkipWhile(line, 1, IsDigit)
    IN IF n = 0 \/ e = 1 \/ e > n THEN NoTok
       ELSE IF line[e] # "/" THEN NoTok
       ELSE LET p == SkipWhile(line, e + 1, IsSpace)
            IN IF p + 3 > n THEN NoTok
               ELSE IF SubSeq(line, p, p + 2) \notin TcpTokens \cup UdpTokens
                    THEN NoTok
               ELSE LET a == SkipWhile(line, p + 3, IsSpace)
                        b == SkipWhile(line, a, NotSpace)
                        s == SkipWhile(line, b, IsSpace)
                        i == SkipWhile(line, s, NotSpace)
                        rest == Strip(SubSeq(line, i, n))
                    IN IF a = p + 3 \/ b = a THEN NoTok
                       ELSE IF s > n
                            THEN [kind |-> "noservice"]
                       ELSE IF \E k \in 1..Len(rest) : rest[k] = "\n"
                            THEN NoTok
                       ELSE [kind     |-> "row",
                             port     |-> SubSeq(line, 1, e - 1),
                             token    |-> SubSeq(line, p, p + 2),
                             protocol |-> IF SubSeq(line, p, p + 2) \in TcpTokens
                                          THEN <<"t","c","p">>
                                          ELSE <<"u","d","p">>,
                             state    |-> SubSeq(line, a, b - 1),
                             service  |-> SubSeq(line, s, i - 1),
                             rest     |-> rest]

\* The tokens of every line of the pool, read once.
TokenTable == [raw \in Pool |-> Tokenize(raw)]

TokenOf(raw) == TokenTable[raw]

\* The state token begins with "open", whatever the case of its letters.
OpenPrefixed(state) ==
    /\ Len(state) >= 4
    /\ state[1] \in {"o","O"} /\ state[2] \in {"p","P"}
    /\ state[3] \in {"e","E"} /\ state[4] \in {"n","N"}

\* The line is a port row that the state filter lets through.
Qualifies(raw, oo) ==
    /\ TokenOf(raw).kind = "row"
    /\ oo => OpenPrefixed(TokenOf(raw).state)

\* The five fields read from the line.
CoreOf(row) == <<row.Port, row.Protocol, row.State, row.Service, row.Version>>
CoreOfTokens(t) == <<t.port, t.protocol, t.state, t.service, t.rest>>

Running == pc \in {"for", "returned"}

LastRow == rows[Len(rows)]

\* The loop takes one more element of `lines`.
LoopStep == pc = "for" /\ idx' = idx + 1

HasInnerSpace(s) == \E k \in 1..Len(s) : IsSpace(s[k])

(***************************************************************************)
(* Properties                                                              *)
(***************************************************************************)

\* C1: the record of a port row that survives the state filter has the
\* digits before the slash as Port, the protocol token in lower case as
\* Protocol, the state and service tokens as they stand as State and
\* Service, and the rest of the line, stripped of the whitespace around it
\* (empty when there is no rest), as Version.
C1_RecordFields ==
    (Running /\ idx > 0 /\ Qualifies(lines[idx], only_open)) =>
        /\ Len(rows) > 0
        /\ CoreOf(LastRow) = CoreOfTokens(TokenOf(lines[idx]))

\* C1 witness: a row with an upper-case protocol token and a version with
\* whitespace inside and after it has been appended.
C1_Witness ==
    /\ Running /\ idx > 0 /\ Qualifies(lines[idx], only_open)
    /\ TokenOf(lines[idx]).token # TokenOf(lines[idx]).protocol
    /\ HasInnerSpace(TokenOf(lines[idx]).rest)
    /\ Len(rows) > 0
    /\ LastRow.Version = TokenOf(lines[idx]).rest
    /\ LastRow.Protocol = <<"u","d","p">>

\* C2 as claimed: in every record Hypothesis, Notes, Loot and Enum are all
\* the empty string.
C2_AllAnnotationsEmpty ==
    \A k \in 1..Len(rows) :
        /\ rows[k].Hypothesis = <<>> /\ rows[k].Notes = <<>>
        /\ rows[k].Loot = <<>> /\ rows[k].Enum = <<>>

\* C2 amended: in every record Hypothesis, Notes and Loot are the empty
\* string and Enum is "N".
C2_AnnotationsEmptyEnumN ==
    \A k \in 1..Len(rows) :
        /\ rows[k].Hypothesis = <<>> /\ rows[k].Notes = <<>>
        /\ rows[k].Loot = <<>> /\ rows[k].Enum = <<"N">>

\* C2 witness: the function has returned two records, one of them with a
\* version, the flag being off.
C2_Witness ==
    /\ pc = "returned" /\ ~only_open /\ Len(rows) = 2
    /\ rows[1].Version # <<>>

\* C3: a port row yields a record exactly when only_open is false or its
\* state begins with "open" in any case.
C3_StateFilter ==
    [][(LoopStep /\ TokenOf(lines[idx']).kind = "row") =>
          /\ Len(rows') \in {Len(rows), Len(rows) + 1}
          /\ (Len(rows') = Len(rows) + 1)
                <=> (only_open => OpenPrefixed(TokenOf(lines[idx']).state))]_vars

\* C3 witness: with only_open, a "closed" row was dropped and an
\* "OPEN|filtered" row after it was kept.
C3_Witness ==
    /\ Running /\ only_open /\ idx = 2 /\ Len(rows) = 1
    /\ TokenOf(lines[1]).kind = "row"
    /\ TokenOf(lines[1]).state = <<"c","l","o","s","e","d">>
    /\ TokenOf(lines[2]).kind = "row"
    /\ TokenOf(lines[2]).state =
           <<"O","P","E","N","|","f","i","l","t","e","r","e","d">>
    /\ LastRow.State = TokenOf(lines[2]).state

\* The indices, among the lines taken so far, of the lines that qualify.
QualifyingSoFar == {k \in 1..idx : Qualifies(lines[k], only_open)}

\* The k-th smallest element of a set of integers.
Nth(S, k) == CHOOSE q \in S : Cardinality({x \in S : x <= q}) = k

\* C4: rows holds one record per qualifying line taken so far, in the order
\* of the lines, repeated ports included.
C4_InputOrder ==
    Running =>
        /\ Len(rows) = Cardinality(QualifyingSoFar)
        /\ \A k \in 1..Len(rows) :
              CoreOf(rows[k]) = CoreOfTokens(TokenOf(lines[Nth(QualifyingSoFar, k)]))

\* C4 witness: two lines with the same port and protocol gave two records
\* that differ, the first line's first.
C4_Witness ==
    /\ pc = "returned" /\ Len(lines) = 2 /\ Len(rows) = 2
    /\ rows[1].Port = rows[2].Port /\ rows[1].Protocol = rows[2].Protocol
    /\ rows[1] # rows[2]
    /\ CoreOf(rows[1]) = CoreOfTokens(TokenOf(lines[1]))

\* C5: every record has a non-empty Port, Protocol, State and Service, and
\* its Protocol is "tcp" or "udp".
C5_RequiredFields ==
    \A k \in 1..Len(rows) :
        /\ rows[k].Port # <<>> /\ rows[k].State # <<>> /\ rows[k].Service # <<>>
        /\ rows[k].Protocol \in {<<"t","c","p">>, <<"u","d","p">>}

\* C5 witness: a record with an empty version, from a line whose protocol
\* token is not in lower case.
C5_Witness ==
    /\ Running /\ idx > 0 /\ Qualifies(lines[idx], only_open)
    /\ TokenOf(lines[idx]).token # TokenOf(lines[idx]).protocol
    /\ Len(rows) > 0 /\ LastRow.Version = <<>>
    /\ LastRow.Service # <<>>

\* xs is a sub-sequence of ys: xs is ys with some elements left out.
RECURSIVE IsSubSeq(_, _)
IsSubSeq(xs, ys) ==
    IF xs = <<>> THEN TRUE
    ELSE IF ys = <<>> THEN FALSE
    ELSE IF Head(xs) = Head(ys) THEN IsSubSeq(Tail(xs), Tail(ys))
    ELSE IsSubSeq(xs, Tail(ys))

\* C6: on the same lines, the output with only_open is a sub-sequence of
\* the output without it.
C6_FilteredIsSubSequence ==
    pc = "returned" =>
        IF only_open
        THEN IsSubSeq(rows, parse_nmap_lines(lines, FALSE))
        ELSE IsSubSeq(parse_nmap_lines(lines, TRUE), rows)

\* C6 witness: a "closed" row is in the unfiltered output only.
C6_Witness ==
    /\ pc = "returned" /\ only_open /\ Len(rows) = 1
    /\ Len(parse_nmap_lines(lines, FALSE)) = 2
    /\ \E k \in 1..2 :
          parse_nmap_lines(lines, FALSE)[k].State = <<"c","l","o","s","e","d">>

\* The raw line is neither empty nor indented.
Eligible(raw) == raw # <<>> /\ ~IsSpace(raw[1])

\* C7: a line yields at most one record, an empty or indented line yields
\* none, and there are never more records than lines that are neither.
C7_AtMostOnePerLine ==
    [][LoopStep =>
          /\ Len(rows') <= Len(rows) + 1
          /\ ~Eligible(lines[idx']) => rows' = rows
          /\ Len(rows') <= Cardinality({k \in 1..idx' : Eligible(lines[k])})]_vars

\* C7 witness: an indented port row was passed over and the row after it
\* gave a record.
C7_Witness ==
    /\ Running /\ idx = 2 /\ Len(rows) = 1
    /\ lines[1] # <<>> /\ ~Eligible(lines[1])
    /\ Tokenize(Strip(lines[1])).kind = "row"
    /\ Qualifies(lines[2], only_open)

\* s without its k-th element.
RemoveAt(s, k) == SubSeq(s, 1, k - 1) \o SubSeq(s, k + 1, Len(s))

\* C8: a line with port, protocol and state but no service yields no
\* record, and the function returns what it returns without that line.
C8_NoServiceDropped ==
    pc = "returned" =>
        \A k \in 1..Len(lines) :
            TokenOf(lines[k]).kind = "noservice" =>
                /\ rows = parse_nmap_lines(RemoveAt(lines, k), only_open)
                /\ Len(rows) < Len(lines)

\* C8 witness: a line without a service, with whitespace after the state,
\* was followed by a row that gave the one record returned.
C8_Witness ==
    /\ pc = "returned" /\ Len(lines) = 2 /\ Len(rows) = 1
    /\ TokenOf(lines[1]).kind = "noservice"
    /\ IsSpace(lines[1][Len(lines[1])])
    /\ Qualifies(lines[2], only_open)

DigitValue(c) == CHOOSE v \in 0..9 : <<"0","1","2","3","4","5","6","7","8","9">>[v + 1] = c

\* int(s) of a string of digits.
RECURSIVE IntOf(_)
IntOf(s) ==
    IF s = <<>> THEN 0
    ELSE 10 * IntOf(SubSeq(s, 1, Len(s) - 1)) + DigitValue(s[Len(s)])

IsDigits(s) == s # <<>> /\ \A k \in 1..Len(s) : IsDigit(s[k])

\* C9 as claimed: the Port of every record is a string of digits whose
\* value is greater than zero.
C9_PortPositive ==
    \A k \in 1..Len(rows) : IsDigits(rows[k].Port) /\ IntOf(rows[k].Port) > 0

\* C9 amended: the Port of every record is a non-empty string of digits,
\* the digits the line begins with; its value may be zero.
C9_PortIsDigitGroup ==
    /\ \A k \in 1..Len(rows) : IsDigits(rows[k].Port) /\ IntOf(rows[k].Port) >= 0
    /\ (Running /\ idx > 0 /\ Qualifies(lines[idx], only_open)) =>
          /\ Len(rows) > 0
          /\ StartsWith(lines[idx], LastRow.Port \o <<"/">>)

\* C9 witness: a record whose Port is "0" has been appended.
C9_Witness ==
    /\ Running /\ idx > 0 /\ Len(rows) > 0
    /\ StartsWith(lines[idx], <<"0","/">>)
    /\ LastRow.Port = <<"0">>

UnderEnum(path) == Len(path) > Len(ENUM_DIR) /\ StartsWith(path, ENUM_DIR)

SaidNo == \E a \in answered : a[2] = <<"n">>

\* C10: the CSV is written only to a path that did not exist when it was
\* checked or for which the user answered "y"; after "o" the check is made
\* again on a path under ./enum; once the user has answered "n", None is
\* returned, nothing is written and main returns 1.
C10_OverwriteOnlyOnYes ==
    /\ \A w \in written :
          w.path \in absent \/ <<w.path, <<"y">> >> \in answered
    /\ (mpc \in {"resolve", "prompt"} /\ depth > 0) => UnderEnum(out_path)
    /\ (mpc = "resolve" /\ depth = 0) => out_path = CandidateOut(args)
    /\ mpc = "parsing" => result.some
    /\ result.some =>
          result.path \in absent \/ <<result.path, <<"y">> >> \in answered
    /\ SaidNo =>
          /\ mpc \in {"resolved", "done"}
          /\ ~result.some
          /\ written = {}
          /\ mpc = "done" => ret = 1

\* C10 witness: the user answered "o" for the first candidate and "y" for
\* the alternative, which existed; the CSV was written there and main
\* returned 0.
C10_Witness ==
    /\ mpc = "done" /\ ret = 0
    /\ <<CandidateOut(args), <<"o">> >> \in answered
    /\ \E w \in written :
          /\ <<w.path, <<"y">> >> \in answered
          /\ w.path \notin absent
          /\ UnderEnum(w.path)
          /\ Len(w.rows) > 0

=============================================================================
